---- MODULE Spec2Model ----
(***************************************************************************)
(* BESS-Analytics: the battery dispatch simulator, the metrics and tiered  *)
(* cost calculators (js/simulation.js), the time aggregator (DataMerger)   *)
(* and the handlers of js/csv_handler.js that drive them.                  *)
(*                                                                         *)
(* JavaScript numbers are modelled as exact rationals plus NaN: a number   *)
(* is [nan, n, d] with n/d in lowest terms and d > 0.  Rounding of IEEE    *)
(* doubles is not modelled; NaN, its comparisons (always false) and its    *)
(* propagation through arithmetic are.                                     *)
(***************************************************************************)
EXTENDS Integers, Sequences, FiniteSets, TLC

VARIABLES
    mergedData,                 \* App.mergedData
    config,                     \* BatterySimulation.config
    simConfig,                  \* the config read by the call of simulate that
                                \* returned currentSimulationResults
    currentSimulationResults,   \* App.currentSimulationResults
    aggArgs,                    \* arguments of the last aggregateDataTo* call
    aggResult,                  \* its return value
    currentResults,             \* YearlyAnalysis.currentResults: null, or [value |->
                                \* the yearly totals, simulationResults |-> the
                                \* simulationResults of the run they were made from]
    optimizationResults,        \* App.optimizationResults: null, or [value |-> the array]
    sweep,                      \* the closure of App.runOptimizationCurve
    currentAggregationOverview, \* App.currentAggregationOverview
    currentAggregationFlow,     \* App.currentAggregationFlow
    currentViewModeOverview,    \* App.currentViewModeOverview
    currentViewModeFlow         \* App.currentViewModeFlow

\* the variables of the simulator, the aggregations (the yearly one
\* included), the sweep and the charts
simVars   == <<mergedData, config, simConfig, currentSimulationResults>>
aggVars   == <<aggArgs, aggResult, currentResults>>
sweepVars == <<optimizationResults, sweep>>
viewVars  == <<currentAggregationOverview, currentAggregationFlow,
               currentViewModeOverview, currentViewModeFlow>>

vars == <<simVars, aggVars, sweepVars, viewVars>>

\* null
Null == [null |-> TRUE]

-----------------------------------------------------------------------------
(* JavaScript numbers *)

RECURSIVE GCD(_, _)
GCD(a, b) == IF b = 0 THEN a ELSE GCD(b, a % b)

AbsInt(i) == IF i < 0 THEN -i ELSE i

NaN == [nan |-> TRUE, n |-> 0, d |-> 1]

\* n/d in lowest terms (d > 0)
Q(n, d) ==
    LET g == GCD(AbsInt(n), d)
    IN  [nan |-> FALSE, n |-> n \div g, d |-> d \div g]

Num(i) == [nan |-> FALSE, n |-> i, d |-> 1]

Zero == Num(0)

\* undefined, where it is only ever an operand of arithmetic: ToNumber gives NaN
Undefined == NaN

IsNaN(a) == a.nan

\* a + b
Add(a, b) ==
    IF a.nan \/ b.nan THEN NaN
    ELSE LET g == GCD(a.d, b.d)
             l == (a.d \div g) * b.d
         IN  Q(a.n * (l \div a.d) + b.n * (l \div b.d), l)

Neg(a) == IF a.nan THEN NaN ELSE [nan |-> FALSE, n |-> -a.n, d |-> a.d]

\* a - b
Sub(a, b) == Add(a, Neg(b))

\* a * b
Mul(a, b) ==
    IF a.nan \/ b.nan THEN NaN
    ELSE LET g1 == GCD(AbsInt(a.n), b.d)
             g2 == GCD(AbsInt(b.n), a.d)
         IN  Q((a.n \div g1) * (b.n \div g2), (a.d \div g2) * (b.d \div g1))

\* a / b; 0/0 is NaN.  x/0 with x # 0 is +-Infinity in JavaScript: the only
\* divisor that can be 0 is capacityKwh in simulate, and there the dividend
\* socKwh is 0 or NaN, so Infinity is not a value of the model.
Div(a, b) ==
    IF a.nan \/ b.nan \/ b.n = 0 THEN NaN
    ELSE IF b.n > 0 THEN Mul(a, [nan |-> FALSE, n |-> b.d, d |-> b.n])
    ELSE Mul(a, [nan |-> FALSE, n |-> -b.d, d |-> -b.n])

\* a < b, a > b, a <= b, a >= b: false when an operand is NaN
Lt(a, b) == ~a.nan /\ ~b.nan /\ Sub(a, b).n < 0
Gt(a, b) == Lt(b, a)
Le(a, b) == ~a.nan /\ ~b.nan /\ Sub(a, b).n <= 0
Ge(a, b) == Le(b, a)

\* a === b on numbers: NaN equals nothing
StrictEq(a, b) == ~a.nan /\ ~b.nan /\ a = b

\* Math.min, Math.max, Math.abs: NaN when an operand is NaN
MathMin(a, b) == IF a.nan \/ b.nan THEN NaN ELSE IF Lt(b, a) THEN b ELSE a
MathMax(a, b) == IF a.nan \/ b.nan THEN NaN ELSE IF Gt(b, a) THEN b ELSE a
MathAbs(a) == IF a.nan THEN NaN ELSE [nan |-> FALSE, n |-> AbsInt(a.n), d |-> a.d]

\* !x on a number: true for 0 and NaN
Falsy(a) == a.nan \/ a.n = 0

\* x || 0
OrZero(a) == IF Falsy(a) THEN Zero ELSE a

\* the 15-minute interval in hours: the literal 0.25
IntervalHours == Q(1, 4)

Hundred == Num(100)

-----------------------------------------------------------------------------
(* BatterySimulation.config as constructed *)

DefaultChargeEfficiency == Q(96, 100)
DefaultDischargeEfficiency == Q(92, 100)

Pricing ==
    [HUF |-> [tier1ImportPrice |-> Num(36), tier2ImportPrice |-> Num(70),
              exportPrice |-> Num(5), tier1LimitKwh |-> Num(2523)],
     EUR |-> [tier1ImportPrice |-> Q(9, 100), tier2ImportPrice |-> Q(18, 100),
              exportPrice |-> Q(1, 100), tier1LimitKwh |-> Num(2523)]]

InitialConfig ==
    [capacityKwh |-> Num(10),
     chargeEfficiency |-> DefaultChargeEfficiency,
     dischargeEfficiency |-> DefaultDischargeEfficiency,
     maxChargeRateKw |-> Num(5),
     maxDischargeRateKw |-> Num(5),
     minSocPercent |-> Num(10),
     maxSocPercent |-> Num(90),
     inverterMode |-> "asymmetric",
     currency |-> "HUF",
     pricing |-> Pricing]

\* obj[key] of a JavaScript object holding numbers: undefined for a missing key
Get(obj, key) == IF key \in DOMAIN obj THEN obj[key] ELSE Undefined

-----------------------------------------------------------------------------
(* BatterySimulation.simulate: the dispatch of one record *)

\* ChargeStep with the charged energy added to the export
ChargeStepRaisingExport(cfg, socKwh, point, actualCharge) ==
    LET energyStored == Mul(actualCharge, cfg.chargeEfficiency)
        chargeLoss   == Sub(actualCharge, energyStored)
    IN  [socKwh |-> Add(socKwh, energyStored),
         gridImportWithBattery |-> point.importKwh,
         gridExportWithBattery |-> Add(point.exportKwh, actualCharge),
         batteryChargeKw |-> Div(actualCharge, IntervalHours),
         batteryDischargeKw |-> Zero,
         batteryLossKw |-> Div(chargeLoss, IntervalHours)]

\* the record left by a charge of actualCharge kWh
ChargeStep(cfg, socKwh, point, actualCharge) ==
    LET energyStored == Mul(actualCharge, cfg.chargeEfficiency)
        chargeLoss   == Sub(actualCharge, energyStored)
    IN  [socKwh |-> Add(socKwh, energyStored),
         gridImportWithBattery |-> point.importKwh,
         gridExportWithBattery |-> Sub(point.exportKwh, actualCharge),
         batteryChargeKw |-> Div(actualCharge, IntervalHours),
         batteryDischargeKw |-> Zero,
         batteryLossKw |-> Div(chargeLoss, IntervalHours)]

\* DischargeStep with the charge rate also set from the discharged energy
DischargeStepBothRates(cfg, socKwh, point, actualDischarge) ==
    LET energyDelivered == Mul(actualDischarge, cfg.dischargeEfficiency)
        dischargeLoss   == Sub(actualDischarge, energyDelivered)
    IN  [socKwh |-> Sub(socKwh, actualDischarge),
         gridImportWithBattery |-> Sub(point.importKwh, energyDelivered),
         gridExportWithBattery |-> point.exportKwh,
         batteryChargeKw |-> Div(actualDischarge, IntervalHours),
         batteryDischargeKw |-> Div(actualDischarge, IntervalHours),
         batteryLossKw |-> Div(dischargeLoss, IntervalHours)]

\* DischargeStep with the delivered energy added to the grid import
DischargeStepAddingToImport(cfg, socKwh, point, actualDischarge) ==
    LET energyDelivered == Mul(actualDischarge, cfg.dischargeEfficiency)
        dischargeLoss   == Sub(actualDischarge, energyDelivered)
    IN  [socKwh |-> Sub(socKwh, actualDischarge),
         gridImportWithBattery |-> Add(point.importKwh, energyDelivered),
         gridExportWithBattery |-> point.exportKwh,
         batteryChargeKw |-> Zero,
         batteryDischargeKw |-> Div(actualDischarge, IntervalHours),
         batteryLossKw |-> Div(dischargeLoss, IntervalHours)]

\* the record left by a discharge of actualDischarge kWh
DischargeStep(cfg, socKwh, point, actualDischarge) ==
    LET energyDelivered == Mul(actualDischarge, cfg.dischargeEfficiency)
        dischargeLoss   == Sub(actualDischarge, energyDelivered)
    IN  [socKwh |-> Sub(socKwh, actualDischarge),
         gridImportWithBattery |-> Sub(point.importKwh, energyDelivered),
         gridExportWithBattery |-> point.exportKwh,
         batteryChargeKw |-> Zero,
         batteryDischargeKw |-> Div(actualDischarge, IntervalHours),
         batteryLossKw |-> Div(dischargeLoss, IntervalHours)]

\* the record of an interval in which the battery does nothing
IdleStep(socKwh, point) ==
    [socKwh |-> socKwh,
     gridImportWithBattery |-> point.importKwh,
     gridExportWithBattery |-> point.exportKwh,
     batteryChargeKw |-> Zero,
     batteryDischargeKw |-> Zero,
     batteryLossKw |-> Zero]

\* Charge without the headroom limit
ChargeIgnoringHeadroom(cfg, socKwh, point, surplus) ==
    LET actualCharge == MathMin(surplus, Mul(cfg.maxChargeRateKw, IntervalHours))
    IN  IF Gt(actualCharge, Zero)
        THEN ChargeStep(cfg, socKwh, point, actualCharge)
        ELSE IdleStep(socKwh, point)

\* Charge without the rate limit
ChargeIgnoringRate(cfg, socKwh, point, surplus) ==
    LET maxChargeKwh == Sub(Mul(Div(cfg.maxSocPercent, Hundred), cfg.capacityKwh), socKwh)
        actualCharge == MathMin(surplus, MathMax(Zero, maxChargeKwh))
    IN  IF Gt(actualCharge, Zero)
        THEN ChargeStep(cfg, socKwh, point, actualCharge)
        ELSE IdleStep(socKwh, point)

\* charge at most `surplus`, the rate limit and the headroom below maxSoc
Charge(cfg, socKwh, point, surplus) ==
    LET chargeRequest == MathMin(surplus, Mul(cfg.maxChargeRateKw, IntervalHours))
        maxChargeKwh  == Sub(Mul(Div(cfg.maxSocPercent, Hundred), cfg.capacityKwh), socKwh)
        actualCharge  == MathMin(chargeRequest, MathMax(Zero, maxChargeKwh))
    IN  IF Gt(actualCharge, Zero)
        THEN ChargeStep(cfg, socKwh, point, actualCharge)
        ELSE IdleStep(socKwh, point)

\* Discharge without the limit of the energy above minSoc
DischargeIgnoringReserve(cfg, socKwh, point, deficit) ==
    LET actualDischarge == MathMin(deficit, Mul(cfg.maxDischargeRateKw, IntervalHours))
    IN  IF Gt(actualDischarge, Zero)
        THEN DischargeStep(cfg, socKwh, point, actualDischarge)
        ELSE IdleStep(socKwh, point)

\* discharge at most `deficit`, the rate limit and the energy above minSoc
Discharge(cfg, socKwh, point, deficit) ==
    LET dischargeRequest      == MathMin(deficit, Mul(cfg.maxDischargeRateKw, IntervalHours))
        availableDischargeKwh == Sub(socKwh, Mul(Div(cfg.minSocPercent, Hundred), cfg.capacityKwh))
        actualDischarge       == MathMin(dischargeRequest, MathMax(Zero, availableDischargeKwh))
    IN  IF Gt(actualDischarge, Zero)
        THEN DischargeStep(cfg, socKwh, point, actualDischarge)
        ELSE IdleStep(socKwh, point)

DispatchAsymmetric(cfg, socKwh, point) ==
    LET netBalance == Sub(point.exportKwh, point.importKwh)
    IN  IF Gt(netBalance, Zero) THEN Charge(cfg, socKwh, point, netBalance)
        ELSE IF Lt(netBalance, Zero) THEN Discharge(cfg, socKwh, point, MathAbs(netBalance))
        ELSE IdleStep(socKwh, point)

\* DispatchSymmetric deciding on the net balance
DispatchSymmetricOnNetBalance(cfg, socKwh, point) ==
    DispatchAsymmetric(cfg, socKwh, point)

DispatchSymmetric(cfg, socKwh, point) ==
    IF Gt(point.exportKwh, Zero) /\ StrictEq(point.importKwh, Zero)
    THEN Charge(cfg, socKwh, point, point.exportKwh)
    ELSE IF Gt(point.importKwh, Zero) /\ StrictEq(point.exportKwh, Zero)
    THEN Discharge(cfg, socKwh, point, point.importKwh)
    ELSE IdleStep(socKwh, point)

Dispatch(cfg, socKwh, point) ==
    IF cfg.inverterMode = "asymmetric"
    THEN DispatchAsymmetric(cfg, socKwh, point)
    ELSE DispatchSymmetric(cfg, socKwh, point)

\* the object pushed to simulatedData: {...point, seven derived fields}
SimulatedPoint(cfg, point, step) ==
    [batterySocPercent |-> Mul(Div(step.socKwh, cfg.capacityKwh), Hundred),
     batterySocKwh |-> step.socKwh,
     batteryChargeKw |-> step.batteryChargeKw,
     batteryDischargeKw |-> step.batteryDischargeKw,
     batteryLossKw |-> step.batteryLossKw,
     gridImportWithBattery |-> step.gridImportWithBattery,
     gridExportWithBattery |-> step.gridExportWithBattery] @@ point

\* SimulateFrom leaving the battery idle when the next record has a surplus
RECURSIVE SimulateFromLookingAhead(_, _, _, _)
SimulateFromLookingAhead(cfg, data, i, socKwh) ==
    IF i > Len(data) THEN <<>>
    ELSE LET step == IF i < Len(data) /\ Gt(data[i + 1].exportKwh, data[i + 1].importKwh)
                     THEN IdleStep(socKwh, data[i])
                     ELSE Dispatch(cfg, socKwh, data[i])
         IN  <<SimulatedPoint(cfg, data[i], step)>>
                 \o SimulateFromLookingAhead(cfg, data, i + 1, step.socKwh)

\* mergedData.forEach(...) from record i with running state of charge socKwh
RECURSIVE SimulateFrom(_, _, _, _)
SimulateFrom(cfg, data, i, socKwh) ==
    IF i > Len(data) THEN <<>>
    ELSE LET step == Dispatch(cfg, socKwh, data[i])
         IN  <<SimulatedPoint(cfg, data[i], step)>>
                 \o SimulateFrom(cfg, data, i + 1, step.socKwh)

InitialSoc(cfg) == Mul(cfg.capacityKwh, Div(cfg.minSocPercent, Hundred))

\* SimulatedData with socKwh kept from the end of the run before
SimulatedDataFromLastSoc(cfg, data) ==
    SimulateFrom(cfg, data, 1,
                 IF currentSimulationResults # Null
                    /\ Len(currentSimulationResults.simulatedData) > 0
                 THEN currentSimulationResults.simulatedData[
                          Len(currentSimulationResults.simulatedData)].batterySocKwh
                 ELSE InitialSoc(cfg))

SimulatedData(cfg, data) == SimulateFrom(cfg, data, 1, InitialSoc(cfg))

-----------------------------------------------------------------------------
(* Metrics *)

\* total = 0; forEach(x => total += x) over a list of numbers
RECURSIVE SumFrom(_, _)
SumFrom(xs, i) == IF i > Len(xs) THEN Zero ELSE Add(xs[i], SumFrom(xs, i + 1))

\* data.map(point => point[field])
FieldValues(data, field) == [i \in 1..Len(data) |-> data[i][field]]

\* data.forEach(point => total += point[field]); with exact numbers the order
\* of the additions does not change the total
Total(data, field) == SumFrom(FieldValues(data, field), 1)

\* data.forEach(point => total += point[field] * 0.25)
TotalEnergy(data, field) ==
    SumFrom([i \in 1..Len(data) |-> Mul(data[i][field], IntervalHours)], 1)

calculateBaselineMetrics(data) ==
    LET totalSolarProduction == TotalEnergy(data, "productionKw")
        totalGridImport      == Total(data, "importKwh")
        totalGridExport      == Total(data, "exportKwh")
        totalSelfConsumption == Sub(totalSolarProduction, totalGridExport)
        selfConsumptionRate  ==
            IF Gt(totalSolarProduction, Zero)
            THEN Mul(Div(totalSelfConsumption, totalSolarProduction), Hundred)
            ELSE Zero
    IN  [solarProduction |-> totalSolarProduction,
         gridImport |-> totalGridImport,
         gridExport |-> totalGridExport,
         solarSelfConsumption |-> totalSelfConsumption,
         selfConsumptionRate |-> selfConsumptionRate,
         batterySelfConsumption |-> Zero,
         batteryLosses |-> Zero]

calculateSimulatedMetrics(data, baselineMetrics) ==
    LET totalSolarProduction       == TotalEnergy(data, "productionKw")
        totalGridImportWithBattery == Total(data, "gridImportWithBattery")
        totalGridExportWithBattery == Total(data, "gridExportWithBattery")
        totalBatteryLosses         == TotalEnergy(data, "batteryLossKw")
        solarSelfConsumption   == Sub(totalSolarProduction, totalGridExportWithBattery)
        batterySelfConsumption == Sub(solarSelfConsumption, baselineMetrics.solarSelfConsumption)
        selfConsumptionRate    ==
            IF Gt(totalSolarProduction, Zero)
            THEN Mul(Div(solarSelfConsumption, totalSolarProduction), Hundred)
            ELSE Zero
    IN  [solarProduction |-> totalSolarProduction,
         gridImport |-> totalGridImportWithBattery,
         gridExport |-> totalGridExportWithBattery,
         solarSelfConsumption |-> solarSelfConsumption,
         selfConsumptionRate |-> selfConsumptionRate,
         batterySelfConsumption |-> batterySelfConsumption,
         batteryLosses |-> totalBatteryLosses]

\* calculateImprovements dividing whatever the baseline flow is
calculateImprovementsUnguarded(before, after) ==
    LET gridImportReduction == Sub(before.gridImport, after.gridImport)
        gridExportReduction == Sub(before.gridExport, after.gridExport)
    IN  [gridImportReduction |-> gridImportReduction,
         gridImportReductionPercent |->
             Mul(Div(gridImportReduction, before.gridImport), Hundred),
         gridExportReduction |-> gridExportReduction,
         gridExportReductionPercent |->
             Mul(Div(gridExportReduction, before.gridExport), Hundred),
         selfConsumptionImprovement |->
             Sub(after.solarSelfConsumption, before.solarSelfConsumption),
         selfConsumptionImprovementPercent |->
             Sub(after.selfConsumptionRate, before.selfConsumptionRate)]

calculateImprovements(before, after) ==
    LET gridImportReduction == Sub(before.gridImport, after.gridImport)
        gridExportReduction == Sub(before.gridExport, after.gridExport)
        selfConsumptionImprovement == Sub(after.solarSelfConsumption, before.solarSelfConsumption)
    IN  [gridImportReduction |-> gridImportReduction,
         gridImportReductionPercent |->
             IF Gt(before.gridImport, Zero)
             THEN Mul(Div(gridImportReduction, before.gridImport), Hundred)
             ELSE Zero,
         gridExportReduction |-> gridExportReduction,
         gridExportReductionPercent |->
             IF Gt(before.gridExport, Zero)
             THEN Mul(Div(gridExportReduction, before.gridExport), Hundred)
             ELSE Zero,
         selfConsumptionImprovement |-> selfConsumptionImprovement,
         selfConsumptionImprovementPercent |->
             Sub(after.selfConsumptionRate, before.selfConsumptionRate)]

-----------------------------------------------------------------------------
(* Tiered cost *)

\* the branch of the tier test one interval takes: wholly at the tier-1
\* price, wholly at the tier-2 price, or crossing the limit within it
IntervalTier(importKwh, cumulativeImport, tier1Limit) ==
    LET importBeforeInterval == cumulativeImport
        importAfterInterval  == Add(cumulativeImport, importKwh)
    IN  IF Le(importAfterInterval, tier1Limit) THEN "tier1"
        ELSE IF Ge(importBeforeInterval, tier1Limit) THEN "tier2"
        ELSE "crossing"

\* the import cost of one interval, cumulativeImport being the import before it
IntervalImportCost(importKwh, cumulativeImport, tier1Limit, tier1Price, tier2Price) ==
    LET importBeforeInterval == cumulativeImport
        importAfterInterval  == Add(cumulativeImport, importKwh)
    IN  IF Le(importAfterInterval, tier1Limit)
        THEN Mul(importKwh, tier1Price)
        ELSE IF Ge(importBeforeInterval, tier1Limit)
        THEN Mul(importKwh, tier2Price)
        ELSE LET tier1Kwh == Sub(tier1Limit, importBeforeInterval)
                 tier2Kwh == Sub(importKwh, tier1Kwh)
             IN  Add(Mul(tier1Kwh, tier1Price), Mul(tier2Kwh, tier2Price))

\* a cumulative import that forgets the intervals before the last one
CumulativeImportOfLastInterval(cumulativeImport, importKwh) == importKwh

\* cumulativeImport += importKwh, at the end of every iteration
NextCumulativeImport(cumulativeImport, importKwh) == Add(cumulativeImport, importKwh)

\* the loop of calculateCost from interval i on
RECURSIVE CostFrom(_, _, _, _, _, _)
CostFrom(imports, exports, prices, i, totalCost, cumulativeImport) ==
    IF i > Len(imports) THEN totalCost
    ELSE LET intervalImportCost ==
                 IntervalImportCost(imports[i], cumulativeImport, prices.tier1Limit,
                                    prices.tier1Price, prices.tier2Price)
             intervalExportRevenue == Mul(Get(exports, i), prices.exportPrice)
         IN  CostFrom(imports, exports, prices, i + 1,
                      Add(totalCost, Sub(intervalImportCost, intervalExportRevenue)),
                      NextCumulativeImport(cumulativeImport, imports[i]))

\* the branches the loop of calculateCost takes from interval i on
RECURSIVE TiersFrom(_, _, _, _)
TiersFrom(imports, tier1Limit, i, cumulativeImport) ==
    IF i > Len(imports) THEN <<>>
    ELSE <<IntervalTier(imports[i], cumulativeImport, tier1Limit)>>
         \o TiersFrom(imports, tier1Limit, i + 1,
                      NextCumulativeImport(cumulativeImport, imports[i]))

\* the closure calculateCost; `prices` holds the four variables it captures
\* (tier1Limit, tier1Price, tier2Price, exportPrice)
calculateCost(gridImportPerInterval, gridExportPerInterval, prices) ==
    CostFrom(gridImportPerInterval, gridExportPerInterval, prices, 1, Zero, Zero)

\* the variables calculateFinancialSavings reads from config.pricing[currency]
CapturedPrices(cfg) ==
    LET prices == cfg.pricing[cfg.currency]
    IN  [tier1Limit  |-> Get(prices, "tier1LimitKwh"),
         tier1Price  |-> Get(prices, "tier1PricePerKwh"),
         tier2Price  |-> Get(prices, "tier2PricePerKwh"),
         exportPrice |-> Get(prices, "exportPricePerKwh")]

\* the object calculateFinancialSavings returns, from the two costs
FinancialSavings(baselineCost, batteryCost, currency) ==
    LET totalSavings == Sub(baselineCost, batteryCost)
        savingsPercent ==
            IF Gt(baselineCost, Zero)
            THEN Mul(Div(totalSavings, baselineCost), Hundred)
            ELSE Zero
    IN  [baselineCost |-> baselineCost,
         batteryCost |-> batteryCost,
         totalSavings |-> totalSavings,
         savingsPercent |-> savingsPercent,
         currency |-> currency]

calculateFinancialSavings(cfg, data) ==
    FinancialSavings(calculateCost(FieldValues(data, "importKwh"),
                                   FieldValues(data, "exportKwh"), CapturedPrices(cfg)),
                     calculateCost(FieldValues(data, "gridImportWithBattery"),
                                   FieldValues(data, "gridExportWithBattery"), CapturedPrices(cfg)),
                     cfg.currency)

-----------------------------------------------------------------------------
(* BatterySimulation.simulate and setConfig *)

\* the object simulate returns, from the values of its locals
SimulationResults(cfg, simulatedData, beforeMetrics, afterMetrics) ==
    [simulatedData |-> simulatedData,
     metrics |-> [before |-> beforeMetrics,
                  after |-> afterMetrics,
                  improvements |-> calculateImprovements(beforeMetrics, afterMetrics),
                  financials |-> calculateFinancialSavings(cfg, simulatedData)]]

\* simulate from the simulated records on
SimulationOf(cfg, simulatedData, beforeMetrics) ==
    SimulationResults(cfg, simulatedData, beforeMetrics,
                      calculateSimulatedMetrics(simulatedData, beforeMetrics))

simulate(cfg, mergedDataArg) ==
    SimulationOf(cfg, SimulatedData(cfg, mergedDataArg), calculateBaselineMetrics(mergedDataArg))

\* an efficiency is replaced by its default when it is > 1 or <= 0
ValidatedEfficiency(value, default) ==
    IF Gt(value, Num(1)) \/ Le(value, Zero) THEN default ELSE value

setConfig(cfg, newConfig) ==
    LET merged == newConfig @@ cfg
    IN  [merged EXCEPT
            !.chargeEfficiency = ValidatedEfficiency(@, DefaultChargeEfficiency),
            !.dischargeEfficiency = ValidatedEfficiency(@, DefaultDischargeEfficiency)]

-----------------------------------------------------------------------------
(* The battery form of the page and App.runBatterySimulation *)

Digits == {"0", "1", "2", "3", "4", "5", "6", "7", "8", "9"}

DigitValue(c) ==
    CASE c = "0" -> 0 [] c = "1" -> 1 [] c = "2" -> 2 [] c = "3" -> 3 [] c = "4" -> 4
      [] c = "5" -> 5 [] c = "6" -> 6 [] c = "7" -> 7 [] c = "8" -> 8 [] c = "9" -> 9

\* the value of the longest run of digits that starts at text[i]
RECURSIVE DigitsFrom(_, _, _)
DigitsFrom(text, i, acc) ==
    IF i > Len(text) \/ text[i] \notin Digits THEN acc
    ELSE DigitsFrom(text, i + 1, 10 * acc + DigitValue(text[i]))

\* parseFloat of a field's text (a sequence of characters; the texts of the
\* model hold an optional sign and digits): NaN unless a digit comes first
parseFloat(text) ==
    IF text # <<>> /\ text[1] = "-"
    THEN IF Len(text) >= 2 /\ text[2] \in Digits
         THEN Num(-DigitsFrom(text, 2, 0)) ELSE NaN
    ELSE IF text # <<>> /\ text[1] \in Digits
         THEN Num(DigitsFrom(text, 1, 0)) ELSE NaN

\* the object runBatterySimulation reads from the form
FormConfig(form) ==
    [capacityKwh |-> parseFloat(form.batteryCapacity),
     chargeEfficiency |-> Div(parseFloat(form.chargeEfficiency), Hundred),
     dischargeEfficiency |-> Div(parseFloat(form.dischargeEfficiency), Hundred),
     maxChargeRateKw |-> parseFloat(form.maxChargeRate),
     maxDischargeRateKw |-> parseFloat(form.maxDischargeRate),
     minSocPercent |-> parseFloat(form.minSoc),
     maxSocPercent |-> parseFloat(form.maxSoc),
     inverterMode |-> form.inverterMode,
     currency |-> form.currency]

\* the texts a field of the form may hold: its default first
FieldTexts ==
    [batteryCapacity |-> <<<<"1", "0">>, <<"2">>, <<"0">>, <<>>>>,
     chargeEfficiency |-> <<<<"9", "6">>, <<"5", "0">>, <<"1", "5", "0">>, <<>>>>,
     dischargeEfficiency |-> <<<<"9", "2">>, <<"1", "0", "0">>, <<"0">>, <<>>>>,
     maxChargeRate |-> <<<<"5">>, <<"0">>>>,
     maxDischargeRate |-> <<<<"5">>, <<"0">>>>,
     minSoc |-> <<<<"1", "0">>, <<"2", "0">>>>,
     maxSoc |-> <<<<"9", "0">>, <<"5">>>>,
     inverterMode |-> <<"asymmetric", "symmetric">>,
     currency |-> <<"HUF", "EUR">>]

FieldNames == DOMAIN FieldTexts

Range(seq) == {seq[i] : i \in DOMAIN seq}

DefaultForm == [f \in FieldNames |-> FieldTexts[f][1]]

\* a form with both rate fields set to 0, and a small battery behind a
\* symmetric inverter
ZeroRatesForm == [DefaultForm EXCEPT !.maxChargeRate = <<"0">>, !.maxDischargeRate = <<"0">>]
SmallSymmetricForm == [DefaultForm EXCEPT !.batteryCapacity = <<"2">>, !.inverterMode = "symmetric"]

\* the forms a run is started with: the defaults, the defaults with one field
\* edited, and the two forms above
Forms ==
    {[DefaultForm EXCEPT ![f] = text] : <<f, text>> \in
        UNION {{<<g, FieldTexts[g][k]>> : k \in DOMAIN FieldTexts[g]} : g \in FieldNames}}
    \cup {ZeroRatesForm, SmallSymmetricForm}

-----------------------------------------------------------------------------
(* The merged timeline *)

\* the longest timeline
MaxLen == 3

\* minutes between two records
IntervalMinutes == 15

\* the readings of an interval: pure surplus, pure deficit, both flows with a
\* net surplus, and nothing
Readings ==
    {[productionKw |-> Num(8), importKwh |-> Zero, exportKwh |-> Num(2)],
     [productionKw |-> Zero, importKwh |-> Num(2), exportKwh |-> Zero],
     [productionKw |-> Num(8), importKwh |-> Num(1), exportKwh |-> Num(3)],
     [productionKw |-> Zero, importKwh |-> Zero, exportKwh |-> Zero]}

\* the timeline mergeDatasets returns for the readings: one record per
\* interval, ascending; times are in minutes
Timeline(readings) ==
    [i \in 1..Len(readings) |->
        [timestamp |-> (i - 1) * IntervalMinutes,
         timestampMs |-> (i - 1) * IntervalMinutes] @@ readings[i]]

Timelines == {Timeline(r) : r \in UNION {[1..n -> Readings] : n \in 0..MaxLen}}

\* the fields of App that no load of data sets
AppAsConstructed ==
    /\ optimizationResults = Null
    /\ currentResults = Null
    /\ sweep = Null
    /\ currentAggregationOverview = "15min"
    /\ currentAggregationFlow = "15min"
    /\ currentViewModeOverview = "energy"
    /\ currentViewModeFlow = "energy"

\* App.runBatterySimulation with the locked range spanning the loaded data
RunBatterySimulation(form) ==
    /\ Len(mergedData) > 0
    /\ LET cfg == setConfig(config, FormConfig(form))
       IN  /\ config' = cfg
           /\ simConfig' = cfg
           /\ currentSimulationResults' = simulate(cfg, mergedData)
    /\ UNCHANGED <<mergedData, aggVars, sweepVars, viewVars>>

Init ==
    /\ mergedData \in Timelines
    /\ config = InitialConfig
    /\ simConfig = Null
    /\ currentSimulationResults = Null
    /\ aggArgs = Null
    /\ aggResult = Null
    /\ AppAsConstructed

Next == \E form \in Forms : RunBatterySimulation(form)

Spec == Init /\ [][Next]_vars

-----------------------------------------------------------------------------
(* Properties of a simulation run *)

Ran == currentSimulationResults # Null

\* the simulated records of the last run (none before the first run)
Simulated == IF Ran THEN currentSimulationResults.simulatedData ELSE <<>>

MinSocKwh(cfg) == Mul(Div(cfg.minSocPercent, Hundred), cfg.capacityKwh)
MaxSocKwh(cfg) == Mul(Div(cfg.maxSocPercent, Hundred), cfg.capacityKwh)

Charges(r) == Gt(r.batteryChargeKw, Zero)
Discharges(r) == Gt(r.batteryDischargeKw, Zero)

\* C1: after each record processed by simulate the state of charge lies
\* between minSocPercent/100*capacityKwh and maxSocPercent/100*capacityKwh,
\* for every config and in both inverter modes.
C1_SocWithinBounds ==
    \A i \in DOMAIN Simulated :
        /\ Le(MinSocKwh(simConfig), Simulated[i].batterySocKwh)
        /\ Le(Simulated[i].batterySocKwh, MaxSocKwh(simConfig))

\* C2: in every simulated record batteryChargeKw = 0 or batteryDischargeKw = 0.
C2_NoSimultaneousChargeDischarge ==
    \A i \in DOMAIN Simulated :
        \/ StrictEq(Simulated[i].batteryChargeKw, Zero)
        \/ StrictEq(Simulated[i].batteryDischargeKw, Zero)

\* a run with a charging record and a discharging record
C2_Witness ==
    /\ \E i \in DOMAIN Simulated : Charges(Simulated[i])
    /\ \E i \in DOMAIN Simulated : Discharges(Simulated[i])

\* C5: in a charging record stored energy plus lost energy equals the energy
\* drawn, in a discharging record delivered energy plus lost energy equals the
\* energy discharged, and in an idle record the loss is 0.
C5_EnergyConservation ==
    \A i \in DOMAIN Simulated :
        LET r      == Simulated[i]
            drawn  == Mul(r.batteryChargeKw, IntervalHours)
            given  == Mul(r.batteryDischargeKw, IntervalHours)
            lost   == Mul(r.batteryLossKw, IntervalHours)
        IN  /\ Charges(r) =>
                StrictEq(Add(Mul(drawn, simConfig.chargeEfficiency), lost), drawn)
            /\ Discharges(r) =>
                StrictEq(Add(Mul(given, simConfig.dischargeEfficiency), lost), given)
            /\ (~Charges(r) /\ ~Discharges(r)) => StrictEq(r.batteryLossKw, Zero)

ZeroBattery(cfg) ==
    \/ StrictEq(cfg.capacityKwh, Zero)
    \/ StrictEq(cfg.maxChargeRateKw, Zero) /\ StrictEq(cfg.maxDischargeRateKw, Zero)

MetricFields ==
    {"solarProduction", "gridImport", "gridExport", "solarSelfConsumption",
     "selfConsumptionRate", "batterySelfConsumption", "batteryLosses"}

\* C6: with capacityKwh = 0, or with both rates 0, every simulated record keeps
\* the metered import and export and the 'after' metrics equal the 'before'
\* metrics field by field.
C6_ZeroBatteryNeutral ==
    (Ran /\ ZeroBattery(simConfig)) =>
        /\ \A i \in DOMAIN Simulated :
              /\ StrictEq(Simulated[i].gridImportWithBattery, Simulated[i].importKwh)
              /\ StrictEq(Simulated[i].gridExportWithBattery, Simulated[i].exportKwh)
        /\ \A f \in MetricFields :
              StrictEq(currentSimulationResults.metrics.after[f],
                       currentSimulationResults.metrics.before[f])

\* a run with capacity 0 over a timeline with a surplus and a deficit interval
C6_Witness ==
    /\ Ran
    /\ StrictEq(simConfig.capacityKwh, Zero)
    /\ \E i \in DOMAIN mergedData : Gt(mergedData[i].exportKwh, mergedData[i].importKwh)
    /\ \E i \in DOMAIN mergedData : Gt(mergedData[i].importKwh, mergedData[i].exportKwh)

InUnitInterval(x) == Gt(x, Zero) /\ Le(x, Num(1))

\* C7: after any call of setConfig, whatever was assigned, chargeEfficiency and
\* dischargeEfficiency lie in (0, 1].
C7_EfficienciesValid ==
    /\ InUnitInterval(config.chargeEfficiency)
    /\ InUnitInterval(config.dischargeEfficiency)

ValidConfig(cfg) ==
    /\ Gt(cfg.capacityKwh, Zero)
    /\ Ge(cfg.maxChargeRateKw, Zero)
    /\ Ge(cfg.maxDischargeRateKw, Zero)
    /\ Ge(cfg.minSocPercent, Zero) /\ Le(cfg.minSocPercent, Hundred)
    /\ Ge(cfg.maxSocPercent, Zero) /\ Le(cfg.maxSocPercent, Hundred)
    /\ Lt(cfg.minSocPercent, cfg.maxSocPercent)
    /\ cfg.inverterMode \in {"asymmetric", "symmetric"}

\* C8: whenever simulate runs, the config in force is well formed: capacity
\* > 0, rates >= 0, SoC limits in [0,100] with min < max, a known inverter mode.
C8_SimulateOnlyWithValidConfig ==
    simConfig # Null => ValidConfig(simConfig)

-----------------------------------------------------------------------------
(* BatterySimulation.simulate called on its own: any timeline, the empty   *)
(* one included, under any config a run of the page can leave behind       *)

ReachableConfigs ==
    {InitialConfig} \cup {setConfig(InitialConfig, FormConfig(form)) : form \in Forms}

Simulate ==
    /\ simConfig' = config
    /\ currentSimulationResults' = simulate(config, mergedData)
    /\ UNCHANGED <<mergedData, config, aggVars, sweepVars, viewVars>>

InitSimulate ==
    /\ mergedData \in Timelines
    /\ config \in ReachableConfigs
    /\ simConfig = Null
    /\ currentSimulationResults = Null
    /\ aggArgs = Null
    /\ aggResult = Null
    /\ AppAsConstructed

NextSimulate == Simulate

SpecSimulate == InitSimulate /\ [][NextSimulate]_vars

Metrics == currentSimulationResults.metrics

ZeroDenominatorGivesZero(denominator, ratio) ==
    StrictEq(denominator, Zero) => StrictEq(ratio, Zero)

\* C11: every ratio of the metrics and of the financial results whose
\* denominator is 0 is the number 0, never an undefined or infinite value:
\* selfConsumptionRate with solarProduction 0, the grid import and export
\* reduction percent with a baseline import or export of 0, savingsPercent
\* with baselineCost 0; also for an empty record sequence.
C11_ZeroDenominatorRatiosAreZero ==
    Ran =>
        /\ ZeroDenominatorGivesZero(Metrics.before.solarProduction,
                                    Metrics.before.selfConsumptionRate)
        /\ ZeroDenominatorGivesZero(Metrics.after.solarProduction,
                                    Metrics.after.selfConsumptionRate)
        /\ ZeroDenominatorGivesZero(Metrics.before.gridImport,
                                    Metrics.improvements.gridImportReductionPercent)
        /\ ZeroDenominatorGivesZero(Metrics.before.gridExport,
                                    Metrics.improvements.gridExportReductionPercent)
        /\ ZeroDenominatorGivesZero(Metrics.financials.baselineCost,
                                    Metrics.financials.savingsPercent)

\* simulate has run on the empty sequence: every denominator is 0
C11_Witness ==
    /\ Ran
    /\ Len(mergedData) = 0
    /\ StrictEq(Metrics.before.solarProduction, Zero)
    /\ StrictEq(Metrics.before.gridImport, Zero)
    /\ StrictEq(Metrics.before.gridExport, Zero)
    /\ StrictEq(Metrics.financials.baselineCost, Zero)

\* the state of charge simulate holds when it reaches record i
SocBefore(i) ==
    IF i = 1 THEN MinSocKwh(simConfig) ELSE Simulated[i - 1].batterySocKwh

ValidEfficiencies(cfg) ==
    InUnitInterval(cfg.chargeEfficiency) /\ InUnitInterval(cfg.dischargeEfficiency)

\* C14: for non-negative imports and exports and a valid config the 'after'
\* metrics have batterySelfConsumption = after.solarSelfConsumption -
\* before.solarSelfConsumption, and it is >= 0.
C14_BatterySelfConsumptionNonNegative ==
    (Ran /\ ValidConfig(simConfig) /\ ValidEfficiencies(simConfig)) =>
        /\ StrictEq(Metrics.after.batterySelfConsumption,
                    Sub(Metrics.after.solarSelfConsumption, Metrics.before.solarSelfConsumption))
        /\ Ge(Metrics.after.batterySelfConsumption, Zero)

\* a run under a valid config in which the battery took up exported energy
C14_Witness ==
    /\ Ran
    /\ ValidConfig(simConfig)
    /\ ValidEfficiencies(simConfig)
    /\ Gt(Metrics.after.batterySelfConsumption, Zero)

\* both flows non-zero, or both zero
MixedInterval(r) ==
    \/ ~StrictEq(r.importKwh, Zero) /\ ~StrictEq(r.exportKwh, Zero)
    \/ StrictEq(r.importKwh, Zero) /\ StrictEq(r.exportKwh, Zero)

\* C15: in symmetric mode the battery charges only in a record with
\* exportKwh > 0 and importKwh = 0 and discharges only in a record with
\* importKwh > 0 and exportKwh = 0; in a record where both are non-zero or
\* both are zero, SoC and the grid flows are unchanged and charge, discharge
\* and loss are 0.
C15_SymmetricOnlyPureIntervals ==
    (Ran /\ simConfig.inverterMode = "symmetric") =>
        \A i \in DOMAIN Simulated :
            LET r == Simulated[i]
            IN  /\ Charges(r) => (Gt(r.exportKwh, Zero) /\ StrictEq(r.importKwh, Zero))
                /\ Discharges(r) => (Gt(r.importKwh, Zero) /\ StrictEq(r.exportKwh, Zero))
                /\ MixedInterval(r) =>
                      /\ r.batterySocKwh = SocBefore(i)
                      /\ StrictEq(r.gridImportWithBattery, r.importKwh)
                      /\ StrictEq(r.gridExportWithBattery, r.exportKwh)
                      /\ StrictEq(r.batteryChargeKw, Zero)
                      /\ StrictEq(r.batteryDischargeKw, Zero)
                      /\ StrictEq(r.batteryLossKw, Zero)

\* a symmetric run that reaches a record with both flows non-zero while the
\* battery holds energy above its reserve and has room to charge
C15_Witness ==
    /\ Ran
    /\ simConfig.inverterMode = "symmetric"
    /\ \E i \in DOMAIN Simulated :
          /\ Gt(Simulated[i].importKwh, Zero)
          /\ Gt(Simulated[i].exportKwh, Zero)
          /\ Gt(SocBefore(i), MinSocKwh(simConfig))
          /\ Lt(SocBefore(i), MaxSocKwh(simConfig))

\* one interval importing nothing, exporting 2 kWh and producing 8 kW, under
\* capacity 10, charge efficiency 0.96, SoC limits 10 % and 90 %, charge rate 5
ChargeExample ==
    /\ Ran
    /\ Len(mergedData) = 1
    /\ mergedData[1].importKwh = Zero
    /\ mergedData[1].exportKwh = Num(2)
    /\ mergedData[1].productionKw = Num(8)
    /\ simConfig.capacityKwh = Num(10)
    /\ simConfig.chargeEfficiency = Q(96, 100)
    /\ simConfig.minSocPercent = Num(10)
    /\ simConfig.maxSocPercent = Num(90)
    /\ simConfig.maxChargeRateKw = Num(5)

\* C16: in that interval simulate charges 1.25 kWh: batterySocKwh = 2.2,
\* batteryChargeKw*0.25 = 1.25, batteryLossKw*0.25 = 0.05,
\* gridExportWithBattery = 0.75 and gridImportWithBattery = 0.
C16_ChargeExampleValues ==
    ChargeExample =>
        /\ StrictEq(Simulated[1].batterySocKwh, Q(22, 10))
        /\ StrictEq(Mul(Simulated[1].batteryChargeKw, IntervalHours), Q(125, 100))
        /\ StrictEq(Mul(Simulated[1].batteryLossKw, IntervalHours), Q(5, 100))
        /\ StrictEq(Simulated[1].gridExportWithBattery, Q(75, 100))
        /\ StrictEq(Simulated[1].gridImportWithBattery, Zero)

\* the interval of the example has been simulated, in either inverter mode
C16_Witness ==
    /\ ChargeExample
    /\ Charges(Simulated[1])

\* min(importKwh - exportKwh, maxDischargeRateKw*0.25, max(0, soc - minSoc/100*capacity))
ExpectedDischarge(r, soc) ==
    MathMin(MathMin(Sub(r.importKwh, r.exportKwh),
                    Mul(simConfig.maxDischargeRateKw, IntervalHours)),
            MathMax(Zero, Sub(soc, MinSocKwh(simConfig))))

C20_NoLookahead ==
    Ran =>
        /\ Len(Simulated) = Len(mergedData)
        /\ \A i \in DOMAIN mergedData :
              [f \in DOMAIN mergedData[i] |-> Simulated[i][f]] = mergedData[i]
        /\ \A k \in 0..Len(mergedData) :
              simulate(simConfig, SubSeq(mergedData, 1, k)).simulatedData
                  = SubSeq(Simulated, 1, k)

\* a run in which the battery acts on a record that is not the last
C20_Witness ==
    /\ Ran
    /\ \E i \in 1..(Len(Simulated) - 1) :
          Charges(Simulated[i]) \/ Discharges(Simulated[i])


\* C24: batterySocPercent of every simulated record is a number, equal to
\* batterySocKwh / capacityKwh * 100 and between minSocPercent and
\* maxSocPercent, for every capacity the simulator runs with, capacity 0
\* included.
C24_SocPercentDefined ==
    \A i \in 1..Len(Simulated) :
        LET r == Simulated[i]
        IN  /\ ~IsNaN(r.batterySocPercent)
            /\ StrictEq(r.batterySocPercent,
                        Mul(Div(r.batterySocKwh, simConfig.capacityKwh), Hundred))
            /\ Le(simConfig.minSocPercent, r.batterySocPercent)
            /\ Le(r.batterySocPercent, simConfig.maxSocPercent)


\* energy kept from the grid export less energy spared from the grid import,
\* in one simulated record
NetTakenFromGrid(r) ==
    Sub(Sub(r.exportKwh, r.gridExportWithBattery), Sub(r.importKwh, r.gridImportWithBattery))

\* C28: in every simulated record the export reduction less the import
\* reduction equals the change of SoC in the record plus its loss
\* (batteryLossKw * 0.25); over the whole run the total export reduction less
\* the total import reduction equals final SoC less initial SoC plus the
\* batteryLosses of the 'after' metrics.
C28_EnergyBalance ==
    /\ \A i \in 1..Len(Simulated) :
           LET r == Simulated[i]
           IN  StrictEq(NetTakenFromGrid(r),
                        Add(Sub(r.batterySocKwh, SocBefore(i)), Mul(r.batteryLossKw, IntervalHours)))
    /\ Len(Simulated) > 0 =>
           StrictEq(Sub(Metrics.improvements.gridExportReduction,
                        Metrics.improvements.gridImportReduction),
                    Add(Sub(Simulated[Len(Simulated)].batterySocKwh, InitialSoc(simConfig)),
                        Metrics.after.batteryLosses))


\* C29: for records with non-negative importKwh and exportKwh and
\* efficiencies in (0,1], every simulated record has
\* 0 <= gridImportWithBattery <= importKwh and
\* 0 <= gridExportWithBattery <= exportKwh, in both inverter modes.
C29_GridFlowsWithinMetered ==
    (/\ Ran
     /\ ValidEfficiencies(simConfig)
     /\ \A i \in 1..Len(mergedData) :
            Ge(mergedData[i].importKwh, Zero) /\ Ge(mergedData[i].exportKwh, Zero))
    => \A i \in 1..Len(Simulated) :
           LET r == Simulated[i]
           IN  /\ Le(Zero, r.gridImportWithBattery)
               /\ Le(r.gridImportWithBattery, r.importKwh)
               /\ Le(Zero, r.gridExportWithBattery)
               /\ Le(r.gridExportWithBattery, r.exportKwh)

\* a run with efficiencies in (0,1] in which a discharge lowered the grid
\* import of one record and a charge lowered the grid export of another
C29_Witness ==
    /\ Ran
    /\ ValidEfficiencies(simConfig)
    /\ \E i \in 1..Len(Simulated) :
           Discharges(Simulated[i])
           /\ Lt(Simulated[i].gridImportWithBattery, Simulated[i].importKwh)
    /\ \E i \in 1..Len(Simulated) :
           Charges(Simulated[i])
           /\ Lt(Simulated[i].gridExportWithBattery, Simulated[i].exportKwh)

-----------------------------------------------------------------------------
(* App.runOptimizationCurve: the sweep over the capacity points.  `sweep`  *)
(* holds what the closure runNextSimulation captures (fixedConfig,         *)
(* currentIndex, results), whether its timer is pending (the button is     *)
(* disabled for that long) and, for the statement of the frame of the      *)
(* sweep only, the config found when the sweep began, which no action      *)
(* reads.                                                                  *)

capacityPoints == <<0, 1, 2, 5, 10, 15, 20, 40, 50, 100, 200>>

\* the fixedConfig read from the form: every field but the capacity
FixedConfig(form) ==
    [chargeEfficiency |-> Div(parseFloat(form.chargeEfficiency), Hundred),
     dischargeEfficiency |-> Div(parseFloat(form.dischargeEfficiency), Hundred),
     maxChargeRateKw |-> parseFloat(form.maxChargeRate),
     maxDischargeRateKw |-> parseFloat(form.maxDischargeRate),
     minSocPercent |-> parseFloat(form.minSoc),
     maxSocPercent |-> parseFloat(form.maxSoc),
     inverterMode |-> form.inverterMode,
     currency |-> form.currency]

\* {...fixedConfig, capacityKwh: capacity}
PointConfig(fixedConfig, capacity) == [capacityKwh |-> Num(capacity)] @@ fixedConfig

\* the object pushed to results for a capacity point
SweepPoint(capacity, simResult) ==
    [capacityKwh |-> Num(capacity),
     gridImportReductionPercent |-> OrZero(simResult.metrics.improvements.gridImportReductionPercent),
     gridExportReductionPercent |-> OrZero(simResult.metrics.improvements.gridExportReductionPercent),
     gridImportReduction |-> OrZero(simResult.metrics.improvements.gridImportReduction),
     gridExportReduction |-> OrZero(simResult.metrics.improvements.gridExportReduction),
     totalSavings |-> OrZero(simResult.metrics.financials.totalSavings),
     savingsPercent |-> OrZero(simResult.metrics.financials.savingsPercent),
     currency |-> simResult.metrics.financials.currency,
     baselineCost |-> OrZero(simResult.metrics.financials.baselineCost),
     batteryCost |-> OrZero(simResult.metrics.financials.batteryCost)]

\* SimulatePoint writing the whole fixedConfig at the first point only and
\* the capacity alone at the later ones
SimulatePointSettingCapacityOnly(fixedConfig, currentIndex, results) ==
    LET capacity == capacityPoints[currentIndex + 1]
        cfg      == IF currentIndex = 0
                    THEN setConfig(config, PointConfig(fixedConfig, capacity))
                    ELSE [config EXCEPT !.capacityKwh = Num(capacity)]
    IN  /\ config' = cfg
        /\ sweep' = [fixedConfig |-> fixedConfig,
                     currentIndex |-> currentIndex + 1,
                     results |-> Append(results, SweepPoint(capacity, simulate(cfg, mergedData))),
                     pending |-> TRUE,
                     disabled |-> TRUE,
                     configAtStart |-> IF currentIndex = 0 THEN config ELSE sweep.configAtStart]
        /\ UNCHANGED optimizationResults

\* SimulatePoint storing the points simulated so far in optimizationResults
SimulatePointPublishing(fixedConfig, currentIndex, results) ==
    LET capacity == capacityPoints[currentIndex + 1]
        cfg      == setConfig(config, PointConfig(fixedConfig, capacity))
        pushed   == Append(results, SweepPoint(capacity, simulate(cfg, mergedData)))
    IN  /\ config' = cfg
        /\ sweep' = [fixedConfig |-> fixedConfig,
                     currentIndex |-> currentIndex + 1,
                     results |-> pushed,
                     pending |-> TRUE,
                     disabled |-> TRUE,
                     configAtStart |-> IF currentIndex = 0 THEN config ELSE sweep.configAtStart]
        /\ optimizationResults' = [value |-> pushed]

\* the body of runNextSimulation for currentIndex < capacityPoints.length;
\* the run button was disabled before the first call and stays so
SimulatePoint(fixedConfig, currentIndex, results) ==
    LET capacity == capacityPoints[currentIndex + 1]
        cfg      == setConfig(config, PointConfig(fixedConfig, capacity))
    IN  /\ config' = cfg
        /\ sweep' = [fixedConfig |-> fixedConfig,
                     currentIndex |-> currentIndex + 1,
                     results |-> Append(results, SweepPoint(capacity, simulate(cfg, mergedData))),
                     pending |-> TRUE,
                     disabled |-> TRUE,
                     configAtStart |-> IF currentIndex = 0 THEN config ELSE sweep.configAtStart]
        /\ UNCHANGED optimizationResults

\* a call of runNextSimulation is scheduled by setTimeout
SweepPending == IF sweep = Null THEN FALSE ELSE sweep.pending

\* btn.disabled of the run button
ButtonDisabled == IF sweep = Null THEN FALSE ELSE sweep.disabled

\* a click on the button while it is enabled: the guards, the form, and the
\* first call of runNextSimulation
RunOptimizationCurve(form) ==
    /\ ~ButtonDisabled
    /\ Len(mergedData) > 0
    /\ SimulatePoint(FixedConfig(form), 0, <<>>)
    /\ UNCHANGED <<mergedData, simConfig, currentSimulationResults, aggVars, viewVars>>

\* the timer set by setTimeout(runNextSimulation, 10) fires
RunNextSimulation ==
    /\ SweepPending
    /\ IF sweep.currentIndex >= Len(capacityPoints)
       THEN /\ optimizationResults' = [value |-> sweep.results]
            /\ sweep' = [sweep EXCEPT !.pending = FALSE, !.disabled = FALSE]
            /\ UNCHANGED config
       ELSE SimulatePoint(sweep.fixedConfig, sweep.currentIndex, sweep.results)
    /\ UNCHANGED <<mergedData, simConfig, currentSimulationResults, aggVars, viewVars>>

\* the forms a sweep is started with, and the forms of the runs between its steps
SweepForms == {DefaultForm, SmallSymmetricForm}
RunForms == {SmallSymmetricForm}

NextSweep ==
    \/ \E form \in SweepForms : RunOptimizationCurve(form)
    \/ RunNextSimulation
    \/ \E form \in RunForms : RunBatterySimulation(form)

\* the sweep simulates every timeline eleven times: it is run on the
\* timelines shorter than the longest
InitSweep ==
    /\ mergedData \in {t \in Timelines : Len(t) < MaxLen}
    /\ config = InitialConfig
    /\ simConfig = Null
    /\ currentSimulationResults = Null
    /\ aggArgs = Null
    /\ aggResult = Null
    /\ AppAsConstructed

SpecSweep == InitSweep /\ [][NextSweep]_vars

\* what simulate returns when the pass starts at minSocPercent/100*capacityKwh
FreshResult(cfg, data) ==
    LET start  == Mul(Div(cfg.minSocPercent, Hundred), cfg.capacityKwh)
        sd     == SimulateFrom(cfg, data, 1, start)
        before == calculateBaselineMetrics(data)
        after  == calculateSimulatedMetrics(sd, before)
    IN  [simulatedData |-> sd,
         metrics |-> [before |-> before,
                      after |-> after,
                      improvements |-> calculateImprovements(before, after),
                      financials |-> calculateFinancialSavings(cfg, sd)]]

C17_SweepRestoresConfig ==
    [][(SweepPending /\ ~SweepPending') => config' = sweep.configAtStart]_vars


\* the points of `results` are those of capacityPoints, in its order
InCapacityOrder(results) ==
    /\ Len(results) <= Len(capacityPoints)
    /\ \A j \in 1..Len(results) : results[j].capacityKwh = Num(capacityPoints[j])

\* the points the sweep has simulated so far
ResultsSoFar == IF sweep = Null THEN <<>> ELSE sweep.results

\* C25: a started sweep simulates the capacity points in the order of
\* capacityPoints, one per step; App.optimizationResults keeps its value
\* until the last point is done and is then set to one entry per capacity
\* point in that order; the run button is disabled from the start of the
\* sweep until that moment and is then enabled again.
C25_SweepInOrderPublishedAtEnd ==
    [][/\ sweep' # sweep =>
              /\ InCapacityOrder(ResultsSoFar')
              /\ sweep'.currentIndex = Len(ResultsSoFar')
              /\ \/ ResultsSoFar' = ResultsSoFar /\ Len(ResultsSoFar) = Len(capacityPoints)
                 \/ Len(ResultsSoFar') = 1 /\ ~ButtonDisabled
                 \/ /\ Len(ResultsSoFar') = Len(ResultsSoFar) + 1
                    /\ SubSeq(ResultsSoFar', 1, Len(ResultsSoFar)) = ResultsSoFar
              /\ ButtonDisabled' <=> ResultsSoFar' # ResultsSoFar
       /\ optimizationResults' # optimizationResults =>
              /\ ButtonDisabled /\ ~ButtonDisabled'
              /\ optimizationResults' = [value |-> ResultsSoFar]
              /\ Len(ResultsSoFar) = Len(capacityPoints)
              /\ InCapacityOrder(ResultsSoFar)]_vars

\* a second sweep half way through its points, the results of the first
\* still in App.optimizationResults
C25_Witness ==
    /\ optimizationResults # Null
    /\ ButtonDisabled
    /\ Len(sweep.results) = 5
    /\ optimizationResults.value[5] # sweep.results[5]


(* Failing steps.  A call made by a step (simulate, or Plotly.newPlot under *)
(* renderOptimizationCurve) may throw.  The try of runOptimizationCurve     *)
(* has returned when a timer callback runs, so only the first call of       *)
(* runNextSimulation is inside it.                                          *)

\* the first step throws in simulate, after setConfig: the catch block
\* re-enables the button and no timer is set
RunOptimizationCurveThrows(form) ==
    /\ ~ButtonDisabled
    /\ Len(mergedData) > 0
    /\ config' = setConfig(config, PointConfig(FixedConfig(form), capacityPoints[1]))
    /\ sweep' = [fixedConfig |-> FixedConfig(form),
                 currentIndex |-> 0,
                 results |-> <<>>,
                 pending |-> FALSE,
                 disabled |-> FALSE,
                 configAtStart |-> config]
    /\ UNCHANGED <<mergedData, simConfig, currentSimulationResults, optimizationResults,
                   aggVars, viewVars>>

\* a timer callback throws, in simulate after setConfig or in the rendering
\* after the results are stored: nothing catches it, the lines after the
\* call are not run and no further timer is set
RunNextSimulationThrows ==
    /\ SweepPending
    /\ IF sweep.currentIndex >= Len(capacityPoints)
       THEN /\ optimizationResults' = [value |-> sweep.results]
            /\ UNCHANGED config
       ELSE /\ config' = setConfig(config, PointConfig(sweep.fixedConfig,
                                                       capacityPoints[sweep.currentIndex + 1]))
            /\ UNCHANGED optimizationResults
    /\ sweep' = [sweep EXCEPT !.pending = FALSE]
    /\ UNCHANGED <<mergedData, simConfig, currentSimulationResults, aggVars, viewVars>>

NextSweepFaults ==
    \/ \E form \in SweepForms : RunOptimizationCurve(form)
    \/ RunNextSimulation
    \/ \E form \in SweepForms : RunOptimizationCurveThrows(form)
    \/ RunNextSimulationThrows

SpecSweepFaults == InitSweep /\ [][NextSweepFaults]_vars

\* C26: if a step of the sweep fails, the first one run synchronously or a
\* later one run from the timer, the run button is enabled again: the button
\* is disabled only while a step of the sweep is still to come, and is never
\* left disabled for ever.
C26_ButtonResetAfterFailure == ButtonDisabled => SweepPending

-----------------------------------------------------------------------------
(* The aggregation and view-mode controls of the two charts.  The charts   *)
(* themselves are drawn on the page and are not part of the state.         *)

AggregationLevels == {"15min", "daily", "monthly"}
ViewTypes == {"power", "energy"}

\* setOverviewAggregation accepting every level in every view mode
setOverviewAggregationInAnyMode(level) ==
    /\ currentAggregationOverview' = level
    /\ UNCHANGED <<simVars, aggVars, sweepVars, currentAggregationFlow,
                   currentViewModeOverview, currentViewModeFlow>>

\* a click on one of the three aggregation buttons of the overview chart
setOverviewAggregation(level) ==
    /\ ~(currentViewModeOverview = "power" /\ level # "15min")
    /\ currentAggregationOverview' = level
    /\ UNCHANGED <<simVars, aggVars, sweepVars, currentAggregationFlow,
                   currentViewModeOverview, currentViewModeFlow>>

\* a click on one of the three aggregation buttons of the energy flow chart
setFlowAggregation(level) ==
    /\ ~(currentViewModeFlow = "power" /\ level # "15min")
    /\ currentAggregationFlow' = level
    /\ UNCHANGED <<simVars, aggVars, sweepVars, currentAggregationOverview,
                   currentViewModeOverview, currentViewModeFlow>>

\* toggleEnergyFlowView setting the view mode of both charts
toggleBothViews(viewType) ==
    /\ currentSimulationResults # Null
    /\ currentViewModeFlow' = viewType
    /\ currentViewModeOverview' = viewType
    /\ currentAggregationFlow' = IF viewType = "power" THEN "15min" ELSE currentAggregationFlow
    /\ UNCHANGED <<simVars, aggVars, sweepVars, currentAggregationOverview>>

\* a click on Power or Energy of the energy flow chart; the listeners are
\* attached when the chart is first drawn, by a simulation run
toggleEnergyFlowView(viewType) ==
    /\ currentSimulationResults # Null
    /\ currentViewModeFlow' = viewType
    /\ currentAggregationFlow' = IF viewType = "power" THEN "15min" ELSE currentAggregationFlow
    /\ UNCHANGED <<simVars, aggVars, sweepVars, currentAggregationOverview,
                   currentViewModeOverview>>

\* a click on Power or Energy of the overview chart; the listeners are
\* attached when the chart is first drawn, with data loaded
toggleOverviewView(viewType) ==
    /\ Len(mergedData) > 0
    /\ currentViewModeOverview' = viewType
    /\ currentAggregationOverview' =
           IF viewType = "power" THEN "15min" ELSE currentAggregationOverview
    /\ UNCHANGED <<simVars, aggVars, sweepVars, currentAggregationFlow,
                   currentViewModeFlow>>

InitView == InitSweep

NextView ==
    \/ \E level \in AggregationLevels : setOverviewAggregation(level)
    \/ \E level \in AggregationLevels : setFlowAggregation(level)
    \/ \E viewType \in ViewTypes : toggleOverviewView(viewType)
    \/ \E viewType \in ViewTypes : toggleEnergyFlowView(viewType)
    \/ RunBatterySimulation(DefaultForm)

SpecView == InitView /\ [][NextView]_vars

\* C18: the controls of the two charts are independent: setOverviewAggregation
\* and toggleOverviewView never change currentAggregationFlow or
\* currentViewModeFlow, and setFlowAggregation and toggleEnergyFlowView
\* never change currentAggregationOverview or currentViewModeOverview.
C18_ChartControlsIndependent ==
    [][/\ ((\E level \in AggregationLevels : setOverviewAggregation(level))
              \/ (\E viewType \in ViewTypes : toggleOverviewView(viewType)))
           => UNCHANGED <<currentAggregationFlow, currentViewModeFlow>>
       /\ ((\E level \in AggregationLevels : setFlowAggregation(level))
              \/ (\E viewType \in ViewTypes : toggleEnergyFlowView(viewType)))
           => UNCHANGED <<currentAggregationOverview, currentViewModeOverview>>]_vars

\* the overview chart switched to power while the flow chart shows daily
\* energy, after a run
C18_Witness ==
    /\ Ran
    /\ currentViewModeOverview = "power"
    /\ currentAggregationOverview = "15min"
    /\ currentViewModeFlow = "energy"
    /\ currentAggregationFlow = "daily"


\* C27: after any sequence of view-mode toggles and aggregation selections a
\* chart in power mode has aggregation level '15min', the overview chart and
\* the energy flow chart alike: switching to power forces '15min' and a
\* request for 'daily' or 'monthly' in power mode changes nothing.
C27_PowerModeImpliesNoAggregation ==
    /\ currentViewModeOverview = "power" => currentAggregationOverview = "15min"
    /\ currentViewModeFlow = "power" => currentAggregationFlow = "15min"

\* both charts switched to power mode
C27_Witness ==
    /\ currentViewModeOverview = "power"
    /\ currentViewModeFlow = "power"

-----------------------------------------------------------------------------
(* Runs over billing-sized intervals: the tiered cost *)

\* readings large enough for a short timeline to cross the 2523 kWh tier limit
BillingReadings ==
    {[productionKw |-> Zero, importKwh |-> im, exportKwh |-> ex] :
        im \in {Zero, Num(1000), Num(3000)}, ex \in {Zero, Num(500)}}

BillingTimelines ==
    {Timeline(r) : r \in UNION {[1..n -> BillingReadings] : n \in 0..MaxLen}}

EurForm == [DefaultForm EXCEPT !.currency = "EUR"]

InitCost ==
    /\ mergedData \in BillingTimelines
    /\ config = InitialConfig
    /\ simConfig = Null
    /\ currentSimulationResults = Null
    /\ aggArgs = Null
    /\ aggResult = Null
    /\ AppAsConstructed

NextCost == \E form \in {DefaultForm, EurForm} : RunBatterySimulation(form)

SpecCost == InitCost /\ [][NextCost]_vars

\* the part of a total below, and the part above, the tier limit
UpToLimit(total, limit) == IF Le(total, limit) THEN total ELSE limit
BeyondLimit(total, limit) == IF Le(total, limit) THEN Zero ELSE Sub(total, limit)

\* the cost of a series billed as two flat-rate totals at the prices of a tier
TwoTierCost(imports, exports, tier) ==
    LET totalImport == SumFrom(imports, 1)
        totalExport == SumFrom(exports, 1)
    IN  Sub(Add(Mul(tier.tier1ImportPrice, UpToLimit(totalImport, tier.tier1LimitKwh)),
                Mul(tier.tier2ImportPrice, BeyondLimit(totalImport, tier.tier1LimitKwh))),
            Mul(tier.exportPrice, totalExport))

Financials == currentSimulationResults.metrics.financials

\* C3: for a series of non-negative imports and exports the cost computed by
\* the tiered calculator is the tier-1 price times the cumulative import up to
\* the tier limit, plus the tier-2 price times the import beyond it, minus
\* the export price times the total export; for the metered series and for
\* the series with battery alike.
C3_TieredCostIsTwoFlatTotals ==
    Ran =>
        LET tier == simConfig.pricing[simConfig.currency]
        IN  /\ StrictEq(Financials.baselineCost,
                        TwoTierCost(FieldValues(Simulated, "importKwh"),
                                    FieldValues(Simulated, "exportKwh"), tier))
            /\ StrictEq(Financials.batteryCost,
                        TwoTierCost(FieldValues(Simulated, "gridImportWithBattery"),
                                    FieldValues(Simulated, "gridExportWithBattery"), tier))

\* C4: with the HUF tier of the config and one interval importing 3000 kWh
\* and exporting nothing, calculateFinancialSavings returns
\* baselineCost = 2523*36 + 477*70 = 124218.
C4_BulkImportBaselineCost ==
    (/\ Ran
     /\ simConfig.currency = "HUF"
     /\ Len(mergedData) = 1
     /\ mergedData[1].importKwh = Num(3000)
     /\ mergedData[1].exportKwh = Zero)
    => StrictEq(Financials.baselineCost, Num(124218))

\* C12: calculateFinancialSavings returns totalSavings = baselineCost -
\* batteryCost, savingsPercent = totalSavings/baselineCost*100 for every
\* baselineCost other than 0 (a negative one too), and savingsPercent = 0
\* when baselineCost is 0.
C12_SavingsAndPercent ==
    Ran =>
        /\ StrictEq(Financials.totalSavings,
                    Sub(Financials.baselineCost, Financials.batteryCost))
        /\ IF StrictEq(Financials.baselineCost, Zero)
           THEN StrictEq(Financials.savingsPercent, Zero)
           ELSE StrictEq(Financials.savingsPercent,
                         Mul(Div(Financials.totalSavings, Financials.baselineCost), Hundred))


\* the branch each interval of one cost computation is billed in
BilledTiers(imports) ==
    TiersFrom(imports, CapturedPrices(simConfig).tier1Limit, 1, Zero)

\* no interval billed at the tier-1 price follows one billed, wholly or
\* partly, at the tier-2 price
CrossedAtMostOnce(tiers) ==
    \A i \in 1..Len(tiers) : \A j \in 1..Len(tiers) :
        (i < j /\ tiers[i] # "tier1") => tiers[j] # "tier1"

\* C21: within one cost computation the cumulative import grows by the
\* import of every interval whatever branch it took and is never reset, so
\* the tier limit is crossed at most once: after an interval billed wholly or
\* partly at the tier-2 price no later interval is billed at the tier-1
\* price, in the metered series and in the series with battery alike.
C21_TierCrossedAtMostOnce ==
    Ran =>
        /\ CrossedAtMostOnce(BilledTiers(FieldValues(Simulated, "importKwh")))
        /\ CrossedAtMostOnce(BilledTiers(FieldValues(Simulated, "gridImportWithBattery")))

\* a run whose metered series is billed at the tier-1 price, then across the
\* limit, then at the tier-2 price
C21_Witness ==
    /\ Ran
    /\ BilledTiers(FieldValues(Simulated, "importKwh")) = <<"tier1", "crossing", "tier2">>

-----------------------------------------------------------------------------
(* Local calendar time.  A time is a number of minutes since 00:00 of     *)
(* 1 January of BaseYear, local time, at a fixed offset from UTC.          *)

BaseYear == 2023
MinutesPerDay == 1440

IsLeapYear(y) == (y % 4 = 0 /\ y % 100 # 0) \/ y % 400 = 0

\* the days of month m (0 = January) of year y
DaysInMonth(y, m) ==
    IF m = 1 THEN (IF IsLeapYear(y) THEN 29 ELSE 28)
    ELSE IF m \in {3, 5, 8, 10} THEN 30 ELSE 31

\* the calendar date `days` days after the first of month m of year y
RECURSIVE DateFromDay(_, _, _)
DateFromDay(y, m, days) ==
    IF days < DaysInMonth(y, m) THEN [year |-> y, month |-> m, date |-> days + 1]
    ELSE IF m = 11 THEN DateFromDay(y + 1, 0, days - DaysInMonth(y, m))
    ELSE DateFromDay(y, m + 1, days - DaysInMonth(y, m))

\* new Date(t) and its getFullYear(), getMonth(), getDate()
DateOf(t) == DateFromDay(BaseYear, 0, t \div MinutesPerDay)
getFullYear(t) == DateOf(t).year
getMonth(t) == DateOf(t).month
getDate(t) == DateOf(t).date

\* the days from 1 January of BaseYear to the first of month m of year y
RECURSIVE DaysBefore(_, _)
DaysBefore(y, m) ==
    IF y = BaseYear /\ m = 0 THEN 0
    ELSE IF m = 0 THEN DaysBefore(y - 1, 11) + DaysInMonth(y - 1, 11)
    ELSE DaysBefore(y, m - 1) + DaysInMonth(y, m - 1)

\* new Date(`${key}T00:00:00`).getTime() for a key YYYY-MM-DD, and for a key
\* YYYY-MM completed with -01.  A key is held as the numbers its text spells
\* (padStart makes every month and day two digits, so the text determines them).
ParseLocalMidnight(key) ==
    (DaysBefore(key[1], key[2] - 1) + key[3] - 1) * MinutesPerDay

\* `${getFullYear()}-${pad(getMonth() + 1)}-${pad(getDate())}`
DateKey(t) == <<getFullYear(t), getMonth(t) + 1, getDate(t)>>

\* `${getFullYear()}-${pad(getMonth() + 1)}`
MonthKey(t) == <<getFullYear(t), getMonth(t) + 1>>

-----------------------------------------------------------------------------
(* DataMerger.aggregateDataToDaily / aggregateDataToMonthly *)

\* obj[field] += row[field] with Assigned in place of the sum
AccumulateOverwrite(obj, row, field) ==
    IF field \in DOMAIN row THEN (field :> row[field]) @@ obj ELSE obj

\* if (row[field] !== undefined) { if (!obj[field]) obj[field] = 0; obj[field] += row[field] }
Accumulate(obj, row, field) ==
    IF field \in DOMAIN row
    THEN LET current == IF field \in DOMAIN obj /\ ~Falsy(obj[field]) THEN obj[field] ELSE Zero
         IN  (field :> Add(current, row[field])) @@ obj
    ELSE obj

\* fieldList.forEach(field => ...) from field i on
RECURSIVE AccumulateAll(_, _, _, _)
AccumulateAll(obj, row, fieldList, i) ==
    IF i > Len(fieldList) THEN obj
    ELSE AccumulateAll(Accumulate(obj, row, fieldList[i]), row, fieldList, i + 1)

\* the empty object {}
EmptyObject == [f \in {} |-> Zero]

NewEntry(key, start) ==
    [key |-> key, timestamp |-> key, timestampMs |-> start,
     count |-> 0, sums |-> EmptyObject, totals |-> EmptyObject]

\* the position of the entry of a key in the map; 0 when the map has none
IndexOfKey(entries, key) ==
    IF \E k \in DOMAIN entries : entries[k].key = key
    THEN CHOOSE k \in DOMAIN entries : entries[k].key = key
    ELSE 0

\* one round of data.forEach: the map (in insertion order) after the row
AddRow(entries, row, key, start, fields) ==
    LET withEntry == IF IndexOfKey(entries, key) = 0
                     THEN Append(entries, NewEntry(key, start)) ELSE entries
        k         == IndexOfKey(withEntry, key)
        entry     == withEntry[k]
    IN  [withEntry EXCEPT ![k] =
            [entry EXCEPT !.count = @ + 1,
                          !.sums = AccumulateAll(@, row, fields.sum, 1),
                          !.totals = AccumulateAll(@, row, fields.average, 1)]]

\* data.forEach from row i on; keys[i] and starts[i] are the key of row i and
\* the start of its bucket
RECURSIVE BuildMap(_, _, _, _, _, _)
BuildMap(data, keys, starts, fields, i, entries) ==
    IF i > Len(data) THEN entries
    ELSE BuildMap(data, keys, starts, fields, i + 1,
                  AddRow(entries, data[i], keys[i], starts[i], fields))

\* the record made of an entry: timestamp, timestampMs, the sums and the averages
\* (an average is assigned after a sum of the same name)
BucketRecord(entry, fields) ==
    [f \in {"timestamp", "timestampMs"} \cup Range(fields.sum) \cup Range(fields.average) |->
        IF f = "timestamp" THEN entry.timestamp
        ELSE IF f = "timestampMs" THEN entry.timestampMs
        ELSE IF f \in Range(fields.average)
        THEN (IF entry.count > 0
              THEN Div(OrZero(Get(entry.totals, f)), Num(entry.count)) ELSE Zero)
        ELSE OrZero(Get(entry.sums, f))]

\* sort without the comparison: the array as it is
KeepInsertionOrder(records) == records

\* the sorted list with one more record, after the records not later than it
RECURSIVE InsertByTimestampMs(_, _)
InsertByTimestampMs(sorted, r) ==
    IF sorted = <<>> THEN <<r>>
    ELSE IF sorted[Len(sorted)].timestampMs <= r.timestampMs THEN Append(sorted, r)
    ELSE Append(InsertByTimestampMs(SubSeq(sorted, 1, Len(sorted) - 1), r), sorted[Len(sorted)])

RECURSIVE SortPrefix(_, _)
SortPrefix(records, n) ==
    IF n = 0 THEN <<>> ELSE InsertByTimestampMs(SortPrefix(records, n - 1), records[n])

\* .sort((a, b) => a.timestampMs - b.timestampMs): ascending and stable
SortByTimestampMs(records) == SortPrefix(records, Len(records))

\* Array.from(map.values()).map(entry => ...).sort(...)
BucketsOf(entries, fields) ==
    SortByTimestampMs([k \in DOMAIN entries |-> BucketRecord(entries[k], fields)])

aggregateDataToDaily(data, fields) ==
    IF Len(data) = 0 THEN <<>>
    ELSE BucketsOf(BuildMap(data,
                            [i \in DOMAIN data |-> DateKey(data[i].timestamp)],
                            [i \in DOMAIN data |-> ParseLocalMidnight(DateKey(data[i].timestamp))],
                            fields, 1, <<>>),
                   fields)

aggregateDataToMonthly(data, fields) ==
    IF Len(data) = 0 THEN <<>>
    ELSE BucketsOf(BuildMap(data,
                            [i \in DOMAIN data |-> MonthKey(data[i].timestamp)],
                            [i \in DOMAIN data |-> ParseLocalMidnight(MonthKey(data[i].timestamp) \o <<1>>)],
                            fields, 1, <<>>),
                   fields)

-----------------------------------------------------------------------------
(* The aggregator on its own *)

\* the field lists getAggregatedData passes
OverviewFields ==
    [sum |-> <<"importKwh", "exportKwh", "productionKwh",
               "gridImportWithBattery", "gridExportWithBattery">>,
     average |-> <<"batterySocPercent", "batterySocKwh">>]

\* times of rows: 1 Jan 00:00 and 23:45, 2 Jan, 1 Feb, and 1 Jan of the next year
RowTimes == {0, 23 * 60 + 45, MinutesPerDay, 31 * MinutesPerDay, 365 * MinutesPerDay}

\* a row of the merged timeline, as getAggregatedData extends it
MergedRow(t) ==
    [timestamp |-> t, timestampMs |-> t, productionKw |-> Num(4),
     productionKwh |-> Num(1), importKwh |-> Num(1), exportKwh |-> Zero]

\* a row of simulated data (its battery rates are not aggregated and are left out)
SimulatedRow(t) ==
    [timestamp |-> t, timestampMs |-> t, productionKw |-> Num(8),
     productionKwh |-> Num(2), importKwh |-> Zero, exportKwh |-> Q(3, 2),
     gridImportWithBattery |-> Zero, gridExportWithBattery |-> Q(1, 4),
     batterySocPercent |-> Num(20), batterySocKwh |-> Num(2)]

Rows == {MergedRow(t) : t \in RowTimes} \cup {SimulatedRow(t) : t \in RowTimes}

\* rows in any order, several of them in one interval allowed
RowLists == UNION {[1..n -> Rows] : n \in 0..MaxLen}

AggregateDaily ==
    /\ aggArgs # Null
    /\ aggArgs.level = "daily"
    /\ aggResult = Null
    /\ aggResult' = [value |-> aggregateDataToDaily(aggArgs.data, aggArgs.fields)]
    /\ UNCHANGED <<simVars, aggArgs, currentResults, sweepVars, viewVars>>

AggregateMonthly ==
    /\ aggArgs # Null
    /\ aggArgs.level = "monthly"
    /\ aggResult = Null
    /\ aggResult' = [value |-> aggregateDataToMonthly(aggArgs.data, aggArgs.fields)]
    /\ UNCHANGED <<simVars, aggArgs, currentResults, sweepVars, viewVars>>

InitAgg ==
    /\ mergedData = <<>>
    /\ config = InitialConfig
    /\ simConfig = Null
    /\ currentSimulationResults = Null
    /\ aggArgs \in [level : {"daily", "monthly"}, data : RowLists, fields : {OverviewFields}]
    /\ aggResult = Null
    /\ AppAsConstructed

NextAgg == AggregateDaily \/ AggregateMonthly

SpecAgg == InitAgg /\ [][NextAgg]_vars

Aggregated == aggResult # Null

Buckets == IF Aggregated THEN aggResult.value ELSE <<>>

\* the value a row has for a field: 0 when the row lacks it
FieldOrZero(row, f) == IF f \in DOMAIN row THEN row[f] ELSE Zero

\* the bucket a time falls in: its day number, or its year and month
BucketOfTime(level, t) ==
    IF level = "daily" THEN <<t \div MinutesPerDay>> ELSE <<getFullYear(t), getMonth(t)>>

\* the rows of the input that fall in the same bucket as time t
RowsInBucket(t) ==
    {i \in DOMAIN aggArgs.data :
        BucketOfTime(aggArgs.level, aggArgs.data[i].timestamp) = BucketOfTime(aggArgs.level, t)}

InputBuckets ==
    {BucketOfTime(aggArgs.level, aggArgs.data[i].timestamp) : i \in DOMAIN aggArgs.data}

\* C9: for every field of fields.sum the sum of the field over the returned
\* buckets equals its sum over the input records.
C9_SumsPreserved ==
    Aggregated =>
        \A f \in Range(aggArgs.fields.sum) :
            StrictEq(SumFrom([k \in DOMAIN Buckets |-> Buckets[k][f]], 1),
                     SumFrom([i \in DOMAIN aggArgs.data |-> FieldOrZero(aggArgs.data[i], f)], 1))

\* rows spread over at least two buckets, two of them in the same bucket
C9_Witness ==
    /\ Aggregated
    /\ Len(Buckets) >= 2
    /\ Len(aggArgs.data) > Len(Buckets)

\* C10: one bucket per distinct calendar day (month) of the input, every record
\* counted in exactly one bucket, buckets strictly ascending by bucket start,
\* whatever the order of the input.
C10_OneBucketPerPeriodAscending ==
    Aggregated =>
        /\ Len(Buckets) = Cardinality(InputBuckets)
        /\ {BucketOfTime(aggArgs.level, Buckets[k].timestampMs) : k \in DOMAIN Buckets} = InputBuckets
        /\ \A k \in DOMAIN Buckets :
              \A f \in Range(aggArgs.fields.average) :
                  StrictEq(Mul(Buckets[k][f], Num(Cardinality(RowsInBucket(Buckets[k].timestampMs)))),
                           SumFrom([i \in DOMAIN aggArgs.data |->
                                       IF i \in RowsInBucket(Buckets[k].timestampMs)
                                       THEN FieldOrZero(aggArgs.data[i], f) ELSE Zero], 1))
        /\ \A k \in 1..(Len(Buckets) - 1) : Buckets[k].timestampMs < Buckets[k + 1].timestampMs

\* rows given latest first, in at least two buckets
C10_Witness ==
    /\ Aggregated
    /\ Len(Buckets) >= 2
    /\ \E i \in 1..(Len(aggArgs.data) - 1) :
          aggArgs.data[i].timestamp > aggArgs.data[i + 1].timestamp

-----------------------------------------------------------------------------
(* YearlyAnalysis: one year of the timeline simulated and reported by month *)

\* new Date(year, 0, 1, 0, 0, 0).getTime()
YearStart(year) == DaysBefore(year, 0) * MinutesPerDay

\* rows from 1 January 00:00:00 to 31 December 23:59:59 of the year; times
\* are whole minutes
filterDataForYear(mergedDataArg, year) ==
    LET InYear(row) == /\ row.timestampMs >= YearStart(year)
                       /\ row.timestampMs < YearStart(year + 1)
    IN  SelectSeq(mergedDataArg, InYear)

MonthNames == <<"Jan", "Feb", "Mar", "Apr", "May", "Jun",
                "Jul", "Aug", "Sep", "Oct", "Nov", "Dec">>

\* the last of `rows` that falls in month m (0 = January); Null when none does
LastRowOfMonth(rows, m) ==
    LET ks == {k \in DOMAIN rows : getMonth(rows[k].timestampMs) = m}
    IN  IF ks = {} THEN Null
        ELSE rows[CHOOSE k \in ks : \A j \in ks : j <= k]

\* monthlyBuckets[m] after the three forEach loops
MonthlyBucket(m, monthlyOriginal, monthlySimulated, yearData) ==
    LET original  == LastRowOfMonth(monthlyOriginal, m)
        optimized == LastRowOfMonth(monthlySimulated, m)
    IN  [monthIndex |-> m,
         month |-> MonthNames[m + 1],
         solarProduction |->
             IF original = Null THEN Zero
             ELSE Mul(OrZero(Get(original, "productionKw")), IntervalHours),
         gridExportOriginal |->
             IF original = Null THEN Zero ELSE OrZero(Get(original, "exportKwh")),
         gridExportOptimized |->
             IF optimized = Null THEN Zero ELSE OrZero(Get(optimized, "gridExportWithBattery")),
         gridImportOriginal |->
             IF original = Null THEN Zero ELSE OrZero(Get(original, "importKwh")),
         gridImportOptimized |->
             IF optimized = Null THEN Zero ELSE OrZero(Get(optimized, "gridImportWithBattery")),
         dataPoints |->
             Cardinality({i \in DOMAIN yearData : getMonth(yearData[i].timestampMs) = m})]

\* the record monthlyBuckets.map makes of a bucket
MonthlyResult(bucket, financialMetrics, yearLength) ==
    LET selfConsumptionBefore == Sub(bucket.solarProduction, bucket.gridExportOriginal)
        selfConsumptionAfter  == Sub(bucket.solarProduction, bucket.gridExportOptimized)
        gridExportReduction   == Sub(bucket.gridExportOriginal, bucket.gridExportOptimized)
        monthFraction == Div(Num(bucket.dataPoints), Num(yearLength))
        baselineCost  == IF yearLength > 0
                         THEN Mul(financialMetrics.baselineCost, monthFraction) ELSE Zero
        batteryCost   == IF yearLength > 0
                         THEN Mul(financialMetrics.batteryCost, monthFraction) ELSE Zero
        savings       == Sub(baselineCost, batteryCost)
    IN  [selfConsumptionBefore |-> selfConsumptionBefore,
         selfConsumptionAfter |-> selfConsumptionAfter,
         gridExportReduction |-> gridExportReduction,
         selfConsumptionBeforePct |->
             IF Gt(bucket.solarProduction, Zero)
             THEN Mul(Div(selfConsumptionBefore, bucket.solarProduction), Hundred) ELSE Zero,
         selfConsumptionAfterPct |->
             IF Gt(bucket.solarProduction, Zero)
             THEN Mul(Div(selfConsumptionAfter, bucket.solarProduction), Hundred) ELSE Zero,
         gridExportReductionPct |->
             IF Gt(bucket.gridExportOriginal, Zero)
             THEN Mul(Div(gridExportReduction, bucket.gridExportOriginal), Hundred) ELSE Zero,
         baselineCost |-> baselineCost,
         batteryCost |-> batteryCost,
         savings |-> savings,
         savingsPct |->
             IF Gt(baselineCost, Zero)
             THEN Mul(Div(savings, baselineCost), Hundred) ELSE Zero] @@ bucket

aggregateToMonthly(yearData, simulatedData, baselineMetrics, simulatedMetrics, financialMetrics) ==
    LET monthlyOriginal ==
            aggregateDataToMonthly(yearData,
                [sum |-> <<"productionKw", "importKwh", "exportKwh">>, average |-> <<>>])
        monthlySimulated ==
            aggregateDataToMonthly(simulatedData,
                [sum |-> <<"gridImportWithBattery", "gridExportWithBattery">>, average |-> <<>>])
    IN  [i \in 1..12 |->
            MonthlyResult(MonthlyBucket(i - 1, monthlyOriginal, monthlySimulated, yearData),
                          financialMetrics, Len(yearData))]

calculateYearlyTotals(monthlyResults, year, capacityKwh) ==
    LET totals == [f \in {"solarProduction", "selfConsumptionBefore", "selfConsumptionAfter",
                          "gridExportReduction", "baselineCost", "batteryCost", "savings"} |->
                      Total(monthlyResults, f)]
    IN  [year |-> year,
         batteryCapacity |-> capacityKwh,
         selfConsumptionBeforePct |->
             IF Gt(totals.solarProduction, Zero)
             THEN Mul(Div(totals.selfConsumptionBefore, totals.solarProduction), Hundred) ELSE Zero,
         selfConsumptionAfterPct |->
             IF Gt(totals.solarProduction, Zero)
             THEN Mul(Div(totals.selfConsumptionAfter, totals.solarProduction), Hundred) ELSE Zero,
         gridExportReductionPct |->
             IF Gt(totals.gridExportReduction, Zero)
                /\ Gt(Add(totals.selfConsumptionBefore, totals.gridExportReduction), Zero)
             THEN Mul(Div(totals.gridExportReduction,
                          Add(totals.selfConsumptionBefore, totals.gridExportReduction)), Hundred)
             ELSE Zero,
         savingsPct |->
             IF Gt(totals.baselineCost, Zero)
             THEN Mul(Div(totals.savings, totals.baselineCost), Hundred) ELSE Zero,
         monthlyResults |-> monthlyResults] @@ totals

\* the config simulate reads during a yearly run: capacityKwh replaced
YearlyConfig(capacityKwh) == [config EXCEPT !.capacityKwh = capacityKwh]

\* the report made of the rows of the year and of their simulation
YearlyReport(yearData, simulationResults, year, capacityKwh) ==
    [value |-> calculateYearlyTotals(
                   aggregateToMonthly(yearData, simulationResults.simulatedData,
                                      simulationResults.metrics.before,
                                      simulationResults.metrics.after,
                                      simulationResults.metrics.financials),
                   year, capacityKwh),
     simulationResults |-> simulationResults]

\* what runYearlyAnalysis stores in currentResults
YearlyResults(year, capacityKwh) ==
    YearlyReport(filterDataForYear(mergedData, year),
                 simulate(YearlyConfig(capacityKwh), filterDataForYear(mergedData, year)),
                 year, capacityKwh)

\* the click listener and runYearlyAnalysis return before the simulation: no
\* year selected (year 0 stands for the empty selection), a capacity that is
\* not a positive number, no data loaded, or none in the year
YearlyReturnsEarly(year, capacity) ==
    \/ year = 0
    \/ IsNaN(capacity)
    \/ Le(capacity, Zero)
    \/ Len(mergedData) = 0
    \/ Len(filterDataForYear(mergedData, year)) = 0

\* a click on 'Calculate' of the yearly analysis, to the end of
\* runYearlyAnalysis: capacityKwh is replaced for the simulation and put back
\* by the last statement
RunYearlyAnalysis(year, capacityText) ==
    LET capacity == parseFloat(capacityText)
    IN  /\ IF YearlyReturnsEarly(year, capacity)
           THEN UNCHANGED currentResults
           ELSE currentResults' = YearlyResults(year, capacity)
        /\ UNCHANGED <<simVars, aggArgs, aggResult, sweepVars, viewVars>>

\* the years of the dropdown and the texts of the capacity field
Years == {0, BaseYear, BaseYear + 1}
CapacityTexts == {<<"5">>, <<"0">>, <<>>}

\* times of rows: 1 January, 1 February and 1 July of BaseYear, and 1 January
\* of the year after
YearlyTimes == <<0, 31 * MinutesPerDay, 181 * MinutesPerDay, 365 * MinutesPerDay>>

\* the readings of the rows of a yearly run: a surplus and a deficit
YearlyReadings ==
    {[productionKw |-> Num(8), importKwh |-> Zero, exportKwh |-> Num(2)],
     [productionKw |-> Zero, importKwh |-> Num(2), exportKwh |-> Zero]}

\* the timeline with readings[k] at the k-th of `times`
TimelineAt(times, readings) ==
    [k \in 1..Len(times) |->
        [timestamp |-> times[k], timestampMs |-> times[k]] @@ readings[k]]

\* the ascending choices of n of the YearlyTimes
AscendingTimes(n) ==
    {ts \in [1..n -> Range(YearlyTimes)] : \A k \in 1..(n - 1) : ts[k] < ts[k + 1]}

YearlyTimelines ==
    UNION {{TimelineAt(ts, r) : ts \in AscendingTimes(n), r \in [1..n -> YearlyReadings]} :
              n \in 0..MaxLen}

InitYearly ==
    /\ mergedData \in YearlyTimelines
    /\ config = InitialConfig
    /\ simConfig = Null
    /\ currentSimulationResults = Null
    /\ aggArgs = Null
    /\ aggResult = Null
    /\ AppAsConstructed

NextYearly ==
    \/ \E year \in Years, capacityText \in CapacityTexts : RunYearlyAnalysis(year, capacityText)
    \/ \E form \in RunForms : RunBatterySimulation(form)

SpecYearly == InitYearly /\ [][NextYearly]_vars

YearlyRan == currentResults # Null

\* C30: the yearly report agrees with the simulation it is built from: the
\* yearly gridExportReductionPct is the total grid-export reduction divided by
\* the total original grid export, times 100, the value of
\* improvements.gridExportReductionPercent of the run, and the twelve monthly
\* gridExportReduction values sum to the run's gridExportReduction.
C30_YearlyReportMatchesRun ==
    YearlyRan =>
        LET yearly       == currentResults.value
            metrics      == currentResults.simulationResults.metrics
        IN  /\ StrictEq(yearly.gridExportReductionPct,
                        IF Gt(metrics.before.gridExport, Zero)
                        THEN Mul(Div(Sub(metrics.before.gridExport, metrics.after.gridExport),
                                     metrics.before.gridExport), Hundred)
                        ELSE Zero)
            /\ StrictEq(yearly.gridExportReductionPct,
                        metrics.improvements.gridExportReductionPercent)
            /\ StrictEq(Total(yearly.monthlyResults, "gridExportReduction"),
                        metrics.improvements.gridExportReduction)

\* a call made by runYearlyAnalysis throws: in the simulation or the
\* aggregation, before currentResults is stored, or in the rendering, after
\* it.  The function has no try: the statement that puts capacityKwh back is
\* not reached.
RunYearlyAnalysisThrows(year, capacityText) ==
    LET capacity == parseFloat(capacityText)
    IN  /\ ~YearlyReturnsEarly(year, capacity)
        /\ config' = YearlyConfig(capacity)
        /\ \/ UNCHANGED currentResults
           \/ currentResults' = YearlyResults(year, capacity)
        /\ UNCHANGED <<mergedData, simConfig, currentSimulationResults, aggArgs, aggResult,
                       sweepVars, viewVars>>

NextYearlyFaults ==
    \/ NextYearly
    \/ \E year \in Years, capacityText \in CapacityTexts :
           RunYearlyAnalysisThrows(year, capacityText)

SpecYearlyFaults == InitYearly /\ [][NextYearlyFaults]_vars

\* C23: runYearlyAnalysis changes nothing of BatterySimulation.config but
\* capacityKwh, and on every exit from it (an early return, the normal end,
\* a failure of the simulation, the aggregation or the rendering) capacityKwh
\* is what it was on entry: a yearly run leaves the config as it found it.
C23_YearlyRunRestoresCapacity ==
    [][(\E year \in Years, capacityText \in CapacityTexts :
            \/ RunYearlyAnalysis(year, capacityText)
            \/ RunYearlyAnalysisThrows(year, capacityText))
       => config' = config]_vars

-----------------------------------------------------------------------------
(* Runs and yearly analyses between the timer steps of a sweep *)

\* the form of the runs between the steps: a charge efficiency of 50 %
HalfChargeForm == [DefaultForm EXCEPT !.chargeEfficiency = <<"5", "0">>]

InitInterleaved ==
    /\ mergedData \in {t \in YearlyTimelines : Len(t) < MaxLen}
    /\ config = InitialConfig
    /\ simConfig = Null
    /\ currentSimulationResults = Null
    /\ aggArgs = Null
    /\ aggResult = Null
    /\ AppAsConstructed

NextInterleaved ==
    \/ RunOptimizationCurve(DefaultForm)
    \/ RunNextSimulation
    \/ RunBatterySimulation(HalfChargeForm)
    \/ RunYearlyAnalysis(BaseYear, <<"5">>)

SpecInterleaved == InitInterleaved /\ [][NextInterleaved]_vars

\* C22: runs do not interfere through the shared config: whatever
\* runBatterySimulation and runYearlyAnalysis events come between the timer
\* steps of a sweep, the entry the sweep records for capacity c is made of
\* what simulate returns under the sweep's fixedConfig with capacityKwh = c.
C22_SweepPointsUnderFixedConfig ==
    \A j \in 1..Len(ResultsSoFar) :
        LET pointConfig == [InitialConfig EXCEPT
                                !.capacityKwh = Num(capacityPoints[j]),
                                !.chargeEfficiency = sweep.fixedConfig.chargeEfficiency,
                                !.dischargeEfficiency = sweep.fixedConfig.dischargeEfficiency,
                                !.maxChargeRateKw = sweep.fixedConfig.maxChargeRateKw,
                                !.maxDischargeRateKw = sweep.fixedConfig.maxDischargeRateKw,
                                !.minSocPercent = sweep.fixedConfig.minSocPercent,
                                !.maxSocPercent = sweep.fixedConfig.maxSocPercent,
                                !.inverterMode = sweep.fixedConfig.inverterMode,
                                !.currency = sweep.fixedConfig.currency]
            returned == simulate(pointConfig, mergedData).metrics
        IN  /\ sweep.results[j].capacityKwh = Num(capacityPoints[j])
            /\ sweep.results[j].gridImportReduction = OrZero(returned.improvements.gridImportReduction)
            /\ sweep.results[j].gridExportReduction = OrZero(returned.improvements.gridExportReduction)
            /\ sweep.results[j].gridImportReductionPercent
                   = OrZero(returned.improvements.gridImportReductionPercent)
            /\ sweep.results[j].gridExportReductionPercent
                   = OrZero(returned.improvements.gridExportReductionPercent)
            /\ sweep.results[j].totalSavings = OrZero(returned.financials.totalSavings)
            /\ sweep.results[j].savingsPercent = OrZero(returned.financials.savingsPercent)
            /\ sweep.results[j].baselineCost = OrZero(returned.financials.baselineCost)
            /\ sweep.results[j].batteryCost = OrZero(returned.financials.batteryCost)
            /\ sweep.results[j].currency = returned.financials.currency

\* a sweep past its second point, with a run under another charge efficiency
\* and a yearly analysis under another capacity made since it began
C22_Witness ==
    /\ SweepPending
    /\ Len(sweep.results) >= 3
    /\ Ran
    /\ simConfig.chargeEfficiency # sweep.fixedConfig.chargeEfficiency
    /\ YearlyRan
    /\ currentResults.simulationResults.metrics.improvements.gridExportReduction
           # sweep.results[Len(sweep.results)].gridExportReduction

====
